---- MODULE Spec2Model ----
(***************************************************************************)
(* Model of the client of the expenses tracker: the axios API client with  *)
(* its request and response interceptors (api.ts), the AuthProvider        *)
(* (contexts/AuthContext.tsx) and the pages that call them.  The server is *)
(* an external collaborator: every response status is chosen               *)
(* nondeterministically.                                                   *)
(***************************************************************************)
EXTENDS Integers, Sequences, FiniteSets, Bags, TLC

\* ---------------------------------------------------------------- bounds
MaxReq == 2          \* requests that can be in flight at the same time
MaxCalls == 2        \* api calls the pages make in one behaviour
MaxTok == 3          \* tokens the server issues in one behaviour
MaxUser == 1         \* distinct accounts the server knows
MaxLen == 2          \* records in the transaction list
MaxRecs == 3         \* expense records the server groups by category

\* ------------------------------------------------------------- constants
NoToken == 0         \* localStorage.getItem(...) === null

Users == 1..MaxUser
Avatars == {0, 1}    \* null avatar, or an uploaded one

Pages == {"home", "login", "register", "profile", "edit"}
ProtectedPages == {"home", "profile", "edit"}
Kinds == {"login", "register", "transactions", "categories", "analytics", "profile"}
ProtectedKinds == Kinds \ {"login", "register"}
Statuses == {200, 401, 500, 0}      \* 0: no response received (network)
Details == {"", "No active account"}
Messages == {"", "Bad request"}
Payloads == [detail : Details, message : Messages]
Passwords == {"a", "b"}
NoPayload == [detail |-> "", message |-> ""]

\* ------------------------------------------------------------ user values
\* interface User: id 0 stands for a user object without the id field, which
\* updateUser builds when there is no previous user.
NoUser == [present |-> FALSE, id |-> 0, avatar |-> 0]
MkUser(i, a) == [present |-> TRUE, id |-> i, avatar |-> a]

\* JSON.stringify(user) / JSON.parse(text): the stored text is a string of
\* fields, not the object; a missing item is the empty text.
NoItem == [has |-> FALSE, text |-> <<>>]
JSONstringify(u) == [has |-> TRUE, text |-> <<u.id, u.avatar>>]
\* a parse that loses the avatar
JSONparseNoAvatar(item) == MkUser(item.text[1], 0)

JSONparse(item) == MkUser(item.text[1], item.text[2])

EmptyStore == [access_token |-> NoToken, refresh_token |-> NoToken, user |-> NoItem]

\* ------------------------------------------------------------------ state
VARIABLES
    store,      \* localStorage: access_token, refresh_token, user
    user,       \* AuthProvider state `user`
    loading,    \* AuthProvider state `loading`
    page,       \* the page component that is mounted
    reqs,       \* the axios request configs in flight (a bag) and their progress
    nextTok,    \* server side: the next token to issue
    calls,      \* api calls made so far
    last,       \* the last event: what the handler that just ran did
    loggedOut,  \* history: logout() has run and no login has succeeded since
    transactions, \* Home state `transactions`
    post,       \* Home: the api.post of addTransaction that is in flight
    analytics,  \* ProfilePage state `analytics` (its summary)
    shown,      \* what the mounted page renders from its state
    note,       \* the last event of Home / ProfilePage
    server,     \* server side: the user's transactions and expense records
    inflight,   \* the other requests of the pages that are in flight
    busy,       \* the busy flags of the pages that are raised
    selected    \* Home state `filterCategoryId`, ProfilePage state `periodIndex`

auth == <<store, user, loading, page, reqs, nextTok, calls, last, loggedOut>>
dash == <<transactions, post, analytics, shown, note, server, inflight, busy, selected>>
vars == <<store, user, loading, page, reqs, nextTok, calls, last, loggedOut,
          transactions, post, analytics, shown, note, server, inflight, busy, selected>>

\* An axios request config: _retry, headers.Authorization, and how far the
\* request has got (sends: times it was put on the wire; refreshCalls: posts
\* to auth/token/refresh/ made for it).
NewReq == [kind |-> "none", st |-> "new", retry |-> FALSE, hdr |-> NoToken,
           refreshCalls |-> 0, sends |-> 0]

\* The last event: the config the handler left behind (cfg), the header it
\* had before (old), the status received with the user object (data) or the
\* error payload of a login response, and what the call site did.  For a
\* document load, data is the user that was in memory before it.
NoEvent == [op |-> "init", cfg |-> NewReq, old |-> NoToken, status |-> 0,
            ret |-> "none", msg |-> "", toasts |-> 0, hard |-> FALSE,
            push |-> "none", logout |-> FALSE, data |-> NoUser,
            payload |-> NoPayload, error |-> "", refresh |-> NoToken]

isAuthenticated == user.present

\* --------------------------------------------------------- api.ts helpers
\* a request interceptor that forgets the header
attachAuthNever(cfg, st) == cfg

\* request interceptor: attach the cached access token
attachAuth(cfg, st) ==
    [cfg EXCEPT !.hdr = IF st.access_token # NoToken THEN st.access_token ELSE @]

\* the refresh condition without the _retry marker
ShouldRefreshNoMarker(status, cfg) == status = 401

\* response interceptor: the condition that starts the refresh cycle
ShouldRefresh(status, cfg) == status = 401 /\ ~cfg.retry

\* a refresh that does not store the new access token
StoreAccessDropped(st, access) == st

\* an interceptor that also stores a rotated refresh token
StoreAccessRotates(st, access) ==
    [st EXCEPT !.access_token = access, !.refresh_token = access]

\* response interceptor: localStorage.setItem('access_token', access)
StoreAccess(st, access) == [st EXCEPT !.access_token = access]

\* a catch branch that leaves the user entry behind
ClearSessionKeepsUser(st) ==
    [st EXCEPT !.access_token = NoToken, !.refresh_token = NoToken]

\* response interceptor, catch: the three removeItem calls
ClearSession(st) ==
    [st EXCEPT !.access_token = NoToken, !.refresh_token = NoToken, !.user = NoItem]

\* ------------------------------------------------------ routing (effects)
\* a guard that leaves the register page alone
RouteGuardLoginOnly(p, u, l) ==
    IF p \in ProtectedPages /\ ~l /\ ~u.present THEN "login"
    ELSE IF p = "login" /\ u.present THEN "home"
    ELSE p

\* The effects of the mounted page that run after every render.
RouteGuard(p, u, l) ==
    IF p \in ProtectedPages /\ ~l /\ ~u.present THEN "login"
    ELSE IF p \in {"login", "register"} /\ u.present THEN "home"
    ELSE p

\* The render gate of Home, ProfilePage and EditProfilePage: the page shows
\* its content unless `loading || !isAuthenticated`.
RendersProtected(p, u, l) == p \in ProtectedPages /\ ~(l \/ ~u.present)

\* --------------------------------------------------- AuthContext helpers
\* a login that does not persist the refresh token
LoginStoreNoRefresh(st, access, refresh, u) ==
    [access_token |-> access, refresh_token |-> st.refresh_token,
     user |-> JSONstringify(u)]

\* login: the three setItem calls
LoginStore(st, access, refresh, u) ==
    [access_token |-> access, refresh_token |-> refresh, user |-> JSONstringify(u)]

\* a catch branch that only looks at the detail field
LoginMessageDetailOnly(payload) ==
    IF payload.detail # "" THEN payload.detail ELSE "Login failed"

\* login, catch: detail || message || 'Login failed'
LoginMessage(payload) ==
    IF payload.detail # "" THEN payload.detail
    ELSE IF payload.message # "" THEN payload.message
    ELSE "Login failed"

\* a logout that leaves the refresh token behind
LogoutStoreKeepsRefresh(st) ==
    [st EXCEPT !.access_token = NoToken, !.user = NoItem]

\* logout: the three removeItem calls
LogoutStore(st) ==
    [st EXCEPT !.access_token = NoToken, !.refresh_token = NoToken, !.user = NoItem]

\* updateUser: prev ? { ...prev, ...updates } : updates
MergeUser(prev, avatar) ==
    IF prev.present THEN [prev EXCEPT !.avatar = avatar] ELSE MkUser(0, avatar)

\* What a call site leaves behind once its request has settled.
Settled(st, u, push, ret, msg, toasts, logout) ==
    [store |-> st, user |-> u, push |-> push, ret |-> ret, msg |-> msg,
     toasts |-> toasts, logout |-> logout, error |-> ""]

\* login, try branch, followed by LoginPage.handleSubmit
loginOk(st, u, access, refresh, uid, avatar) ==
    Settled(LoginStore(st, access, refresh, MkUser(uid, avatar)),
            MkUser(uid, avatar), "home", "true", "", 1, FALSE)

\* login, catch branch
loginCatch(st, u, payload) ==
    Settled(st, u, "none", "false", LoginMessage(payload), 1, FALSE)

\* a registration that signs the new user in
registerOkSignsIn(st, u) ==
    Settled(LoginStore(st, 1, 1, MkUser(1, 0)), MkUser(1, 0), "home", "true", "", 1, FALSE)

\* register, try branch, followed by RegisterPage.handleSubmit: toast.success,
\* return true, router.push('/login')
registerOk(st, u) == Settled(st, u, "login", "true", "", 1, FALSE)

\* register, catch branch: a toast in every case, return false
registerCatch(st, u) == Settled(st, u, "none", "false", "", 1, FALSE)

\* getTransactions, catch branch
getTransactionsCatch(st, u, status) ==
    IF status = 401
    THEN Settled(LogoutStore(st), NoUser, "login", "none", "", 2, TRUE)
    ELSE Settled(st, u, "none", "none", "", 1, FALSE)

\* getCategories, catch branch: console.error only
getCategoriesCatch(st, u) == Settled(st, u, "none", "none", "", 0, FALSE)

\* fetchAnalytics, catch branch: setError (the alert of the page), no toast
fetchAnalyticsCatch(st, u) ==
    [Settled(st, u, "none", "none", "", 0, FALSE)
        EXCEPT !.error = "Could not load analytics. Please try again."]

\* fetchProfile, try branch: updateUser({ avatar })
fetchProfileOk(st, u, avatar) ==
    Settled([st EXCEPT !.user = JSONstringify(MergeUser(u, avatar))],
            MergeUser(u, avatar), "none", "none", "", 0, FALSE)

\* fetchProfile, catch branch: falls back to the cached user
fetchProfileCatch(st, u) == Settled(st, u, "none", "none", "", 0, FALSE)

\* The call site's continuation after the promise resolved.
CallerOk(kind, st, u, access, refresh, uid, avatar) ==
    CASE kind = "login" -> loginOk(st, u, access, refresh, uid, avatar)
      [] kind = "register" -> registerOk(st, u)
      [] kind = "profile" -> fetchProfileOk(st, u, avatar)
      [] OTHER -> Settled(st, u, "none", "none", "", 0, FALSE)

\* The call site's continuation after the promise rejected with `status`.
CallerFail(kind, st, u, status, payload) ==
    CASE kind = "login" -> loginCatch(st, u, payload)
      [] kind = "register" -> registerCatch(st, u)
      [] kind = "transactions" -> getTransactionsCatch(st, u, status)
      [] kind = "categories" -> getCategoriesCatch(st, u)
      [] kind = "analytics" -> fetchAnalyticsCatch(st, u)
      [] OTHER -> fetchProfileCatch(st, u)

\* ------------------------------------------------------- JavaScript numbers
\* A number is NaN or an integer.  A raw amount is what a record or the form
\* holds: a number or numeric string ("num"), a text that is no number
\* ("text"), or the empty string ("empty").
NaN == [nan |-> TRUE, v |-> 0]
Num(n) == [nan |-> FALSE, v |-> n]
Amounts == {-50, 0, 50, 100, 150, 200, 400, 1000}
RecordAmounts == {-50, 0, 50, 400, 1000}
NumericAmounts == {[tag |-> "num", v |-> n] : n \in RecordAmounts}
NotANumber == [tag |-> "text", v |-> 0]
EmptyString == [tag |-> "empty", v |-> 0]

\* Number(x)
Number(a) ==
    CASE a.tag = "num" -> Num(a.v)
      [] a.tag = "empty" -> Num(0)
      [] OTHER -> NaN

\* x + y
Plus(x, y) == IF x.nan \/ y.nan THEN NaN ELSE Num(x.v + y.v)
\* x - y
Minus(x, y) == IF x.nan \/ y.nan THEN NaN ELSE Num(x.v - y.v)
\* x || 0
OrZero(x) == IF x.nan \/ x.v = 0 THEN Num(0) ELSE x
\* x > 0
Positive(x) == ~x.nan /\ x.v > 0
\* Math.abs(n)
Abs(n) == IF n < 0 THEN -n ELSE n

\* A quotient that is not rounded: num / den.
Frac(n, d) == [num |-> n, den |-> d]

\* ----------------------------------------------------- Home: derived totals
\* interface Transaction: the fields the totals read.  Type "none" is a
\* record without the type field.
Types == {"income", "expense"}
MaxId == MaxLen + 1
Ids == 1..MaxId
Categories == 0..2      \* 0: a record without a category
Transaction == [id : Ids, category : Categories,
                amount : NumericAmounts \cup {NotANumber}, type : Types \cup {"none"}]

\* a filter that never infers the type of a record without one
typeOrSignNoInference(t) == t.type

\* t.type ?? (Number(t.amount) > 0 ? 'income' : 'expense')
typeOrSign(t) ==
    IF t.type # "none" THEN t.type
    ELSE IF Positive(Number(t.amount)) THEN "income" ELSE "expense"

\* a reducer that keeps the first amount only
addAmountFirstOnly(acc, t) == IF acc.v = 0 THEN OrZero(Plus(acc, Number(t.amount))) ELSE acc

\* (acc, t) => acc + Number(t.amount) || 0
addAmount(acc, t) == OrZero(Plus(acc, Number(t.amount)))

RECURSIVE reduce(_, _)
\* Array.prototype.reduce with the callback above
reduce(list, acc) ==
    IF list = <<>> THEN acc ELSE reduce(Tail(list), addAmount(acc, Head(list)))

income(list) == reduce(SelectSeq(list, LAMBDA t : typeOrSign(t) = "income"), Num(0))
expense(list) == reduce(SelectSeq(list, LAMBDA t : typeOrSign(t) = "expense"), Num(0))

\* a balance that adds the expense
balanceSum(list) == Plus(income(list), expense(list))

\* income - expense
balance(list) == Minus(income(list), expense(list))

\* a ratio without the upper clamp
ratioUnclamped(inc, exp) ==
    IF inc > 0 THEN Frac(Abs(exp) * 100, inc) ELSE Frac(0, 1)

\* income > 0 ? Math.min((Math.abs(expense) / income) * 100, 100) : 0
ratio(inc, exp) ==
    IF inc > 0
    THEN IF Abs(exp) * 100 >= 100 * inc THEN Frac(100, 1) ELSE Frac(Abs(exp) * 100, inc)
    ELSE Frac(0, 1)

\* --------------------------------------------- ProfilePage: derived ratios
\* analytics?.summary: total_income and total_expense as the server sent
\* them, and analytics.expenses_by_category
NoSummary == [has |-> FALSE, period |-> 0, total_income |-> 0, total_expense |-> 0,
              expenses_by_category |-> <<>>]
Summaries == [total_income : Amounts, total_expense : Amounts]

\* The expense records of the server, by category id (1, 2, 3 for A, B, C).
Cats == 1..3
ServerExpense == [category : Cats, amount : {10, 30}]
ServerExpenses == UNION {[1..n -> ServerExpense] : n \in 0..MaxRecs}

RECURSIVE totalOf(_, _)
totalOf(recs, c) ==
    IF recs = <<>> THEN 0
    ELSE (IF Head(recs).category = c THEN Head(recs).amount ELSE 0) + totalOf(Tail(recs), c)

countOf(recs, c) == Cardinality({i \in 1..Len(recs) : recs[i].category = c})

\* group by category id, sum amounts and counts per category
Groups(recs) ==
    {[category |-> c, total |-> totalOf(recs, c), count |-> countOf(recs, c)] :
        c \in {recs[i].category : i \in 1..Len(recs)}}

\* descending total, ties by category id ascending
Before(a, b) == a.total > b.total \/ (a.total = b.total /\ a.category < b.category)

RECURSIVE ordered(_)
ordered(S) ==
    IF S = {} THEN <<>>
    ELSE LET first == CHOOSE a \in S : \A b \in S \ {a} : Before(a, b)
         IN <<first>> \o ordered(S \ {first})

\* byCategory(records, kind) for the expense records, computed by the server
byCategory(recs) == ordered(Groups(recs))

\* PERIODS, by index
Periods == 0..3

\* res.data of analytics/summary/ for the range of PERIODS[p]
AnalyticsResponse(s, recs, p) ==
    [has |-> TRUE, period |-> p,
     total_income |-> s.total_income, total_expense |-> s.total_expense,
     expenses_by_category |-> byCategory(recs)]

\* a recommendation that reports the last entry
topSpendingLast(list) == list[Len(list)]

\* const top = analytics.expenses_by_category[0]
topSpending(list) == list[1]

\* recommendations: "Top spending: ..." when the list is not empty; 0: none
TopCategory(s) ==
    IF s.has /\ s.expenses_by_category # <<>>
    THEN topSpending(s.expenses_by_category).category ELSE 0

\* summary && summary.total_income > 0
\*   ? Math.min(100, (summary.total_expense / summary.total_income) * 100) : 0
expenseRatio(s) ==
    IF s.has /\ s.total_income > 0
    THEN IF s.total_expense * 100 >= 100 * s.total_income THEN Frac(100, 1)
         ELSE Frac(s.total_expense * 100, s.total_income)
    ELSE Frac(0, 1)

\* What the mounted page renders: Home's cards and ProfilePage's progress bar.
Render(list, s) ==
    [income |-> income(list), expense |-> expense(list), balance |-> balance(list),
     ratio |-> ratio(income(list).v, expense(list).v),
     expenseRatio |-> expenseRatio(s), top |-> TopCategory(s)]

\* ------------------------------------------------- Home: the add form
Texts == {"", "Salary", "Rent"}
FormAmounts == NumericAmounts \cup {EmptyString, NotANumber}

\* the validation without the check of the sign
addTransactionErrorNoSign(text, amount) ==
    IF text = "" \/ amount = EmptyString \/ Number(amount).nan
    THEN "Please provide valid description and amount"
    ELSE ""

\* addTransaction: the two early returns; "" when the form is accepted
addTransactionError(text, amount) ==
    IF text = "" \/ amount = EmptyString \/ Number(amount).nan
    THEN "Please provide valid description and amount"
    ELSE IF Number(amount).v <= 0 THEN "Amount must be greater than zero"
    ELSE ""

\* The api.post in flight: its payload and the `transactions` of the render
\* in which the button was clicked (base).
NoPost == [sent |-> FALSE, text |-> "", amount |-> 0, type |-> "expense", base |-> <<>>]

\* res.data of the post: the record the server created from the payload
Created(p, id) ==
    [id |-> id, category |-> 0, amount |-> [tag |-> "num", v |-> p.amount], type |-> p.type]

\* Server side: the transactions of the user, newest first, the id of the
\* next one, and the expense records the analytics group by category.
NoServer == [rows |-> <<>>, nextId |-> 1, expenses |-> <<>>]

\* A request of a page that is in flight: the handler, its argument (the
\* id, the filter, the period) and the `transactions` its closure holds.
Request(op, arg, base) == [op |-> op, arg |-> arg, base |-> base]

NoSelection == [filter |-> 0, period |-> 0]

\* The last event of a page: the handler, the form it read, the toast or
\* error banner it showed.
NoNote == [op |-> "init", text |-> "", amount |-> EmptyString, toast |-> "",
           error |-> ""]

\* ------------------------------------------------------------------- Init
\* The document loads with the store as an earlier visit left it: empty, or
\* with the session of a login.
Init ==
    /\ store \in {EmptyStore, LoginStore(EmptyStore, 1, 1, MkUser(1, 0))}
    /\ user = NoUser
    /\ loading = TRUE
    /\ page \in Pages
    /\ reqs = EmptyBag
    /\ nextTok = IF store = EmptyStore THEN 1 ELSE 2
    /\ calls = 0
    /\ last = NoEvent
    /\ loggedOut = FALSE
    /\ transactions = <<>>
    /\ post = NoPost
    /\ analytics = NoSummary
    /\ shown = Render(<<>>, NoSummary)
    /\ note = NoNote
    /\ server = NoServer
    /\ inflight = {}
    /\ busy = {}
    /\ selected = NoSelection

InFlight == BagToSet(reqs)
Add(cfg) == reqs (+) SetToBag({cfg})
Replace(cfg, new) == (reqs (-) SetToBag({cfg})) (+) SetToBag({new})
Remove(cfg) == reqs (-) SetToBag({cfg})

\* ---------------------------------------------------------------- actions
\* AuthProvider, effect on mount
\* a startup check that clears `loading` in a render of its own, before the
\* user is set
loadUserLoadingFirst ==
    /\ loading
    /\ loading' = FALSE
    /\ page' = RouteGuard(page, user, FALSE)
    /\ last' = [NoEvent EXCEPT !.op = "loadUser"]
    /\ UNCHANGED <<store, user, reqs, nextTok, calls, loggedOut>>
    /\ UNCHANGED dash

loadUser ==
    /\ loading
    /\ user' = IF store.user.has /\ store.access_token # NoToken
               THEN JSONparse(store.user) ELSE user
    /\ loading' = FALSE
    /\ page' = RouteGuard(page, user', FALSE)
    /\ last' = [NoEvent EXCEPT !.op = "loadUser"]
    /\ UNCHANGED <<store, reqs, nextTok, calls, loggedOut>>
    /\ UNCHANGED dash

\* A document load (reload, typed address, or the navigation that an
\* assignment to window.location.href started): the script state is lost,
\* with it every pending request.
Reload(p) ==
    /\ user' = NoUser
    /\ loading' = TRUE
    /\ page' = p
    /\ reqs' = EmptyBag
    /\ last' = [NoEvent EXCEPT !.op = "reload", !.data = user]
    /\ UNCHANGED <<store, nextTok, calls, loggedOut>>
    /\ UNCHANGED dash

Links == {<<"login", "register">>, <<"register", "login">>, <<"home", "profile">>,
          <<"profile", "edit">>, <<"profile", "home">>, <<"edit", "profile">>}

\* next/link navigation inside the running application
Navigate(p) ==
    /\ ~loading
    /\ <<page, p>> \in Links
    /\ page' = RouteGuard(p, user, loading)
    /\ last' = [NoEvent EXCEPT !.op = "navigate"]
    /\ UNCHANGED <<store, user, loading, reqs, nextTok, calls, loggedOut>>
    /\ UNCHANGED dash

\* Home.handleLogout: logout(); router.push('/login')
handleLogout ==
    /\ ~loading
    /\ page = "home"
    /\ isAuthenticated
    /\ store' = LogoutStore(store)
    /\ user' = NoUser
    /\ page' = RouteGuard("login", user', loading)
    /\ last' = [NoEvent EXCEPT !.op = "logout", !.toasts = 1, !.push = "login",
                               !.logout = TRUE]
    /\ loggedOut' = TRUE
    /\ UNCHANGED <<loading, reqs, nextTok, calls>>
    /\ UNCHANGED dash

CanCall(kind) ==
    CASE kind = "login" -> page = "login"
      [] kind = "register" -> page = "register"
      [] kind \in {"transactions", "categories"} -> page = "home" /\ isAuthenticated
      [] kind = "analytics" -> page = "profile" /\ isAuthenticated
      [] OTHER -> page = "edit" /\ isAuthenticated

\* api.get / api.post from a call site: the request interceptor runs and the
\* request is on the wire.
Call(kind) ==
    /\ ~loading
    /\ CanCall(kind)
    /\ BagCardinality(reqs) < MaxReq
    /\ calls < MaxCalls
    /\ calls' = calls + 1
    /\ LET cfg == attachAuth([NewReq EXCEPT !.kind = kind, !.st = "sent", !.sends = 1], store)
       IN /\ reqs' = Add(cfg)
          /\ last' = [NoEvent EXCEPT !.op = "call", !.cfg = cfg]
    /\ UNCHANGED <<store, user, loading, page, nextTok, loggedOut>>
    /\ UNCHANGED dash

\* RegisterPage.handleSubmit: the passwords are compared before register()
\* is called
handleSubmit(password, password2) ==
    /\ ~loading
    /\ page = "register"
    /\ IF password # password2
       THEN /\ last' = [NoEvent EXCEPT !.op = "mismatch",
                                       !.msg = "Passwords do not match!"]
            /\ UNCHANGED <<store, user, loading, page, reqs, nextTok, calls, loggedOut>>
            /\ UNCHANGED dash
       ELSE Call("register")

\* The state the application is left in when the call site of the request
\* has run its continuation `out`; `hard` says window.location.href was
\* assigned.  The settled config is kept in the event.
Finish(cfg, final, out, hard, ev) ==
    /\ store' = out.store
    /\ user' = out.user
    /\ page' = RouteGuard(IF out.push # "none" THEN out.push ELSE page, user', loading)
    /\ reqs' = Remove(cfg)
    /\ last' = [ev EXCEPT !.cfg = [final EXCEPT !.st = "done"], !.old = cfg.hdr,
                          !.ret = out.ret, !.msg = out.msg,
                          !.toasts = out.toasts, !.push = out.push,
                          !.logout = out.logout, !.hard = hard,
                          !.error = out.error]
    /\ loggedOut' = (out.logout \/
                      (loggedOut /\ ~(cfg.kind = "login" /\ out.ret = "true")))
    /\ UNCHANGED <<loading, calls>>
    /\ UNCHANGED dash

OnWire(cfg) == cfg \in InFlight /\ cfg.st \in {"sent", "resent"}

\* The server answers 2xx: the response interceptor passes the response
\* through and the call site continues.
RespondOk(cfg, uid, avatar) ==
    /\ OnWire(cfg)
    /\ cfg.kind = "login" => nextTok <= MaxTok
    /\ cfg.kind # "login" => uid = 1
    /\ cfg.kind \notin {"login", "profile"} => avatar = 0
    /\ Finish(cfg, cfg,
              CallerOk(cfg.kind, store, user, nextTok, nextTok, uid, avatar),
              FALSE,
              [NoEvent EXCEPT !.op = "ok", !.status = 200,
                              !.data = IF cfg.kind = "login" THEN MkUser(uid, avatar)
                                       ELSE NoUser])
    /\ nextTok' = IF cfg.kind = "login" THEN nextTok + 1 ELSE nextTok

PayloadFor(cfg, status, payload) ==
    (cfg.kind # "login" \/ status = 0) => payload = NoPayload

\* The server answers 401 to a request that has not been retried and a
\* refresh token is cached: the interceptor marks the request and posts to
\* auth/token/refresh/ with plain axios.
StartRefresh(cfg) ==
    /\ OnWire(cfg)
    /\ ShouldRefresh(401, cfg)
    /\ store.refresh_token # NoToken
    /\ LET new == [cfg EXCEPT !.retry = TRUE, !.st = "refreshing",
                              !.refreshCalls = @ + 1]
       IN /\ reqs' = Replace(cfg, new)
          /\ last' = [NoEvent EXCEPT !.op = "refreshCall", !.cfg = new,
                                     !.old = cfg.hdr, !.status = 401,
                                     !.refresh = store.refresh_token]
    /\ UNCHANGED <<store, user, loading, page, nextTok, calls, loggedOut>>
    /\ UNCHANGED dash

\* An error response (or no response) that the interceptor rejects to the
\* caller: not a 401, or already retried, or no refresh token is cached.
Reject(cfg, status, payload) ==
    /\ OnWire(cfg)
    /\ status # 200
    /\ PayloadFor(cfg, status, payload)
    /\ ShouldRefresh(status, cfg) => store.refresh_token = NoToken
    /\ Finish(cfg, [cfg EXCEPT !.retry = @ \/ ShouldRefresh(status, cfg)],
              CallerFail(cfg.kind, store, user, status, payload),
              FALSE,
              [NoEvent EXCEPT !.op = IF ShouldRefresh(status, cfg)
                                     THEN "noRefreshToken" ELSE "reject",
                              !.status = status, !.payload = payload])
    /\ UNCHANGED nextTok

\* The refresh call succeeded: store the new access token, put it on the
\* original request and resubmit it through the api client.
RefreshOk(cfg) ==
    /\ cfg \in InFlight
    /\ cfg.st = "refreshing"
    /\ nextTok <= MaxTok
    /\ store' = StoreAccess(store, nextTok)
    /\ LET new == attachAuth([cfg EXCEPT !.hdr = nextTok, !.st = "resent",
                                         !.sends = @ + 1], store')
       IN /\ reqs' = Replace(cfg, new)
          /\ last' = [NoEvent EXCEPT !.op = "refreshOk", !.cfg = new,
                                     !.old = cfg.hdr, !.status = 200]
    /\ nextTok' = nextTok + 1
    /\ UNCHANGED <<user, loading, page, calls, loggedOut>>
    /\ UNCHANGED dash

\* The refresh call failed: clear the store, assign window.location.href and
\* reject the caller with the refresh error.
RefreshFail(cfg, status, payload) ==
    /\ cfg \in InFlight
    /\ cfg.st = "refreshing"
    /\ status # 200
    /\ PayloadFor(cfg, status, payload)
    /\ Finish(cfg, cfg,
              CallerFail(cfg.kind, ClearSession(store), user, status, payload),
              TRUE,
              [NoEvent EXCEPT !.op = "refreshFail", !.status = status,
                              !.payload = payload])
    /\ UNCHANGED nextTok

Next ==
    \/ loadUser
    \/ \E p \in Pages : Reload(p)
    \/ \E p \in Pages : Navigate(p)
    \/ handleLogout
    \/ \E k \in Kinds \ {"register"} : Call(k)
    \/ \E password, password2 \in Passwords : handleSubmit(password, password2)
    \/ \E cfg \in InFlight, uid \in Users, avatar \in Avatars : RespondOk(cfg, uid, avatar)
    \/ \E cfg \in InFlight : StartRefresh(cfg)
    \/ \E cfg \in InFlight, s \in Statuses, pl \in Payloads : Reject(cfg, s, pl)
    \/ \E cfg \in InFlight : RefreshOk(cfg)
    \/ \E cfg \in InFlight, s \in Statuses, pl \in Payloads : RefreshFail(cfg, s, pl)

Spec == Init /\ [][Next]_vars

TypeOK ==
    /\ store.access_token \in 0..MaxTok
    /\ store.refresh_token \in 0..MaxTok
    /\ loading \in BOOLEAN
    /\ page \in Pages
    /\ nextTok \in 1..(MaxTok + 1)
    /\ BagCardinality(reqs) <= MaxReq
    /\ \A cfg \in InFlight : cfg.st \in {"sent", "refreshing", "resent"}


\* ============================================ Home and ProfilePage, signed in
\* The pages of a signed-in user: Home with the list that getTransactions
\* fetched, ProfilePage before its analytics arrived.
Entry == [amount : NumericAmounts \cup {NotANumber}, type : Types \cup {"none"}]
Fetched(l) ==
    [i \in 1..Len(l) |-> [id |-> Len(l) - i + 1, category |-> 0,
                           amount |-> l[i].amount, type |-> l[i].type]]
Lists == UNION {{Fetched(l) : l \in [1..n -> Entry]} : n \in 0..MaxLen}

DashInit ==
    /\ store = LoginStore(EmptyStore, 1, 1, MkUser(1, 0))
    /\ user = MkUser(1, 0)
    /\ loading = FALSE
    /\ page \in {"home", "profile"}
    /\ reqs = EmptyBag
    /\ nextTok = 2
    /\ calls = 0
    /\ last = NoEvent
    /\ loggedOut = FALSE
    /\ transactions \in Lists
    /\ page = "profile" => transactions = <<>>
    /\ post = NoPost
    /\ analytics = NoSummary
    /\ shown = Render(transactions, analytics)
    /\ note = NoNote
    /\ server \in {[rows |-> transactions, nextId |-> Len(transactions) + 1, expenses |-> e] :
                      e \in IF page = "profile" THEN ServerExpenses ELSE {<<>>}}
    /\ inflight = IF page = "profile" THEN {Request("analytics", 0, <<>>)} ELSE {}
    /\ busy = IF page = "profile" THEN {"loadingAnalytics"} ELSE {}
    /\ selected = NoSelection

\* Home.addTransaction up to the api.post: the button is disabled while
\* `loading` (a post is in flight)
addTransaction(text, amount, type) ==
    /\ page = "home" /\ ~loading /\ isAuthenticated
    /\ ~post.sent /\ "loading" \notin busy
    /\ LET err == addTransactionError(text, amount)
       IN /\ err = "" => (Len(transactions) < MaxLen /\ server.nextId <= MaxId)
          /\ busy' = IF err = "" THEN busy \cup {"loading"} ELSE busy
          /\ post' = IF err = ""
                     THEN [sent |-> TRUE, text |-> text, amount |-> Number(amount).v,
                           type |-> type, base |-> transactions]
                     ELSE post
          /\ note' = [NoNote EXCEPT !.op = "addTransaction", !.text = text,
                                    !.amount = amount, !.toast = err]
    /\ UNCHANGED <<transactions, analytics, shown, server, inflight, selected>>
    /\ UNCHANGED auth

\* a try branch that puts the new record at the end of the list
addTransactionOkAtEnd ==
    /\ page = "home"
    /\ post.sent
    /\ server' = [server EXCEPT !.rows = <<Created(post, server.nextId)>> \o server.rows,
                                 !.nextId = server.nextId + 1]
    /\ transactions' = post.base \o <<Created(post, server.nextId)>>
    /\ post' = NoPost
    /\ busy' = busy \ {"loading"}
    /\ shown' = Render(transactions', analytics)
    /\ note' = [NoNote EXCEPT !.op = "addOk", !.toast = "Transaction added successfully"]
    /\ UNCHANGED <<analytics, inflight, selected>>
    /\ UNCHANGED auth

\* Home.addTransaction, try branch after the await, and finally
addTransactionOk ==
    /\ page = "home"
    /\ post.sent
    /\ server' = [server EXCEPT !.rows = <<Created(post, server.nextId)>> \o server.rows,
                                 !.nextId = server.nextId + 1]
    /\ transactions' = <<Created(post, server.nextId)>> \o post.base
    /\ post' = NoPost
    /\ busy' = busy \ {"loading"}
    /\ shown' = Render(transactions', analytics)
    /\ note' = [NoNote EXCEPT !.op = "addOk", !.toast = "Transaction added successfully"]
    /\ UNCHANGED <<analytics, inflight, selected>>
    /\ UNCHANGED auth

\* Home.addTransaction, catch branch, and finally
addTransactionCatch(status, hasData) ==
    /\ page = "home"
    /\ post.sent
    /\ status = 0 => ~hasData
    /\ post' = NoPost
    /\ IF status = 401
       THEN /\ store' = LogoutStore(store)
            /\ user' = NoUser
            /\ page' = RouteGuard("login", user', loading)
            /\ loggedOut' = TRUE
            /\ transactions' = <<>>
            /\ note' = [NoNote EXCEPT !.op = "addCatch",
                                      !.toast = "Session expired. Please login again."]
       ELSE /\ note' = [NoNote EXCEPT !.op = "addCatch",
                           !.toast = IF hasData THEN "Failed to add transaction: detail"
                                     ELSE "Failed to add transaction. Please check your connection."]
            /\ UNCHANGED <<store, user, page, loggedOut, transactions>>
    /\ busy' = IF status = 401 THEN {} ELSE busy \ {"loading"}
    /\ inflight' = IF status = 401 THEN {} ELSE inflight
    /\ selected' = IF status = 401 THEN NoSelection ELSE selected
    /\ shown' = Render(transactions', analytics)
    /\ UNCHANGED <<loading, reqs, nextTok, calls, last, analytics, server>>

\* ------------------------------------------------- Home: delete and filter
\* transactions.filter((t) => t.id !== id)
Without(list, id) == SelectSeq(list, LAMBDA t : t.id # id)

\* the records of the server that a GET transactions/?category=f returns
Matching(rows, f) == SelectSeq(rows, LAMBDA t : f = 0 \/ t.category = f)

HasId(list, id) == \E i \in 1..Len(list) : list[i].id = id

\* What the 401 branch of a catch of Home does: toast, logout(), push
\* ("/login"); Home unmounts and its state goes.
SessionExpired(op) ==
    /\ store' = LogoutStore(store)
    /\ user' = NoUser
    /\ page' = RouteGuard("login", user', loading)
    /\ loggedOut' = TRUE
    /\ transactions' = <<>>
    /\ post' = NoPost
    /\ inflight' = {}
    /\ busy' = {}
    /\ selected' = NoSelection
    /\ note' = [NoNote EXCEPT !.op = op, !.toast = "Session expired. Please login again."]

\* Home.deleteTransaction up to the api.delete: the handler of the row's
\* button holds the `transactions` of the render it was created in
deleteTransaction(id) ==
    /\ page = "home" /\ ~loading /\ isAuthenticated
    /\ HasId(transactions, id)
    /\ calls < MaxCalls
    /\ Request("delete", id, transactions) \notin inflight
    /\ inflight' = inflight \cup {Request("delete", id, transactions)}
    /\ calls' = calls + 1
    /\ note' = [NoNote EXCEPT !.op = "deleteTransaction"]
    /\ UNCHANGED <<transactions, post, analytics, shown, server, busy, selected>>
    /\ UNCHANGED <<store, user, loading, page, reqs, nextTok, last, loggedOut>>

\* Home.deleteTransaction, try branch after the await
deleteTransactionOk(r) ==
    /\ page = "home"
    /\ r \in inflight /\ r.op = "delete"
    /\ HasId(server.rows, r.arg)
    /\ server' = [server EXCEPT !.rows = Without(server.rows, r.arg)]
    /\ inflight' = inflight \ {r}
    /\ transactions' = Without(r.base, r.arg)
    /\ shown' = Render(transactions', analytics)
    /\ note' = [NoNote EXCEPT !.op = "deleteOk", !.toast = "Transaction deleted successfully"]
    /\ UNCHANGED <<post, analytics, busy, selected>>
    /\ UNCHANGED auth

\* Home.deleteTransaction, catch branch
deleteTransactionCatch(r, status) ==
    /\ page = "home"
    /\ r \in inflight /\ r.op = "delete"
    /\ IF status = 401
       THEN SessionExpired("deleteCatch")
       ELSE /\ inflight' = inflight \ {r}
            /\ note' = [NoNote EXCEPT !.op = "deleteCatch",
                                      !.toast = "Failed to delete transaction"]
            /\ UNCHANGED <<store, user, page, loggedOut, transactions, post, busy, selected>>
    /\ shown' = Render(transactions', analytics)
    /\ UNCHANGED <<loading, reqs, nextTok, calls, last, analytics, server>>

\* The filter select: setFilterCategoryId(e.target.value), and the effect
\* that calls the new getTransactions
setFilterCategoryId(f) ==
    /\ page = "home" /\ ~loading /\ isAuthenticated
    /\ f # selected.filter
    /\ calls < MaxCalls
    /\ Request("list", f, <<>>) \notin inflight
    /\ selected' = [selected EXCEPT !.filter = f]
    /\ inflight' = inflight \cup {Request("list", f, <<>>)}
    /\ calls' = calls + 1
    /\ note' = [NoNote EXCEPT !.op = "setFilterCategoryId"]
    /\ UNCHANGED <<transactions, post, analytics, shown, server, busy>>
    /\ UNCHANGED <<store, user, loading, page, reqs, nextTok, last, loggedOut>>

\* Home.getTransactions, try branch after the await: setTransactions(list)
getTransactionsOk(r) ==
    /\ page = "home"
    /\ r \in inflight /\ r.op = "list"
    /\ inflight' = inflight \ {r}
    /\ transactions' = Matching(server.rows, r.arg)
    /\ shown' = Render(transactions', analytics)
    /\ note' = [NoNote EXCEPT !.op = "listOk"]
    /\ UNCHANGED <<post, analytics, server, busy, selected>>
    /\ UNCHANGED auth

\* Home.getTransactions, catch branch
getTransactionsFail(r, status, hasData) ==
    /\ page = "home"
    /\ r \in inflight /\ r.op = "list"
    /\ status = 0 => ~hasData
    /\ IF status = 401
       THEN SessionExpired("listCatch")
       ELSE /\ inflight' = inflight \ {r}
            /\ note' = [NoNote EXCEPT !.op = "listCatch",
                           !.toast = IF hasData THEN "Failed to fetch transactions: detail"
                                     ELSE "Failed to fetch transactions. Please check your connection."]
            /\ UNCHANGED <<store, user, page, loggedOut, transactions, post, busy, selected>>
    /\ shown' = Render(transactions', analytics)
    /\ UNCHANGED <<loading, reqs, nextTok, calls, last, analytics, server>>

\* ProfilePage.fetchAnalytics, try branch and finally: setAnalytics(res.data)
fetchAnalyticsOk(r, s) ==
    /\ page = "profile" /\ ~loading
    /\ r \in inflight /\ r.op = "analytics"
    /\ inflight' = inflight \ {r}
    /\ analytics' = AnalyticsResponse(s, server.expenses, r.arg)
    /\ busy' = busy \ {"loadingAnalytics"}
    /\ shown' = Render(transactions, analytics')
    /\ note' = [NoNote EXCEPT !.op = "analyticsOk"]
    /\ UNCHANGED <<transactions, post, server, selected>>
    /\ UNCHANGED auth

\* ProfilePage.fetchAnalytics, catch branch and finally: setError,
\* setAnalytics(null)
fetchAnalyticsFail(r) ==
    /\ page = "profile" /\ ~loading
    /\ r \in inflight /\ r.op = "analytics"
    /\ inflight' = inflight \ {r}
    /\ analytics' = NoSummary
    /\ busy' = busy \ {"loadingAnalytics"}
    /\ shown' = Render(transactions, analytics')
    /\ note' = [NoNote EXCEPT !.op = "analyticsCatch",
                              !.error = "Could not load analytics. Please try again."]
    /\ UNCHANGED <<transactions, post, server, selected>>
    /\ UNCHANGED auth

DashNext ==
    \/ \E text \in Texts, amount \in FormAmounts, type \in Types :
          addTransaction(text, amount, type)
    \/ addTransactionOk
    \/ \E status \in {400, 401, 500, 0}, hasData \in BOOLEAN :
          addTransactionCatch(status, hasData)
    \/ \E r \in inflight, s \in Summaries : fetchAnalyticsOk(r, s)
    \/ \E r \in inflight : fetchAnalyticsFail(r)

Dashboard == DashInit /\ [][DashNext]_vars

DashTypeOK ==
    /\ Len(transactions) <= MaxLen
    /\ \A i \in 1..Len(transactions) : transactions[i] \in Transaction
    /\ post.sent => post.amount \in Amounts /\ post.text \in Texts
    /\ shown = Render(transactions, analytics)

\* ------------------------------------------- ProfilePage: period select
\* The period select: setPeriodIndex(i), and the effect that calls the new
\* fetchAnalytics up to its api.get
setPeriodIndex(p) ==
    /\ page = "profile" /\ ~loading /\ isAuthenticated
    /\ p # selected.period
    /\ calls < MaxCalls
    /\ Request("analytics", p, <<>>) \notin inflight
    /\ selected' = [selected EXCEPT !.period = p]
    /\ inflight' = inflight \cup {Request("analytics", p, <<>>)}
    /\ busy' = busy \cup {"loadingAnalytics"}
    /\ calls' = calls + 1
    /\ note' = [NoNote EXCEPT !.op = "setPeriodIndex"]
    /\ UNCHANGED <<transactions, post, analytics, shown, server>>
    /\ UNCHANGED <<store, user, loading, page, reqs, nextTok, last, loggedOut>>

\* ------------------------------------------ EditProfilePage: submissions
\* A form handler up to its request: the early return on errors, the busy
\* flag, the request
Submit(op, flag, valid) ==
    /\ page = "edit" /\ ~loading /\ isAuthenticated
    /\ flag \notin busy
    /\ valid => calls < MaxCalls
    /\ inflight' = IF valid THEN inflight \cup {Request(op, 0, <<>>)} ELSE inflight
    /\ busy' = IF valid THEN busy \cup {flag} ELSE busy
    /\ calls' = IF valid THEN calls + 1 ELSE calls
    /\ UNCHANGED <<transactions, post, analytics, shown, server, selected>>
    /\ UNCHANGED <<store, user, loading, page, reqs, nextTok, last, loggedOut>>

\* ProfilePage as it mounts: loadingAnalytics starts true and the effect
\* calls fetchAnalytics
MountProfile ==
    /\ inflight' = {Request("analytics", 0, <<>>)}
    /\ busy' = {"loadingAnalytics"}
    /\ selected' = NoSelection

\* handleProfileSubmit up to api.patch
handleProfileSubmit(valid) ==
    /\ Submit("saveProfile", "savingProfile", valid)
    /\ note' = [NoNote EXCEPT !.op = "handleProfileSubmit",
                              !.toast = IF valid THEN "" ELSE "Please fix the errors below."]

\* handleProfileSubmit, try branch and finally: updateUser, toast,
\* router.push("/profile")
handleProfileSubmitOk(r) ==
    /\ page = "edit"
    /\ r \in inflight /\ r.op = "saveProfile"
    /\ user' = user
    /\ store' = [store EXCEPT !.user = JSONstringify(user)]
    /\ page' = RouteGuard("profile", user, loading)
    /\ MountProfile
    /\ note' = [NoNote EXCEPT !.op = "saveProfileOk", !.toast = "Profile updated successfully."]
    /\ UNCHANGED <<transactions, post, analytics, shown, server>>
    /\ UNCHANGED <<loading, reqs, nextTok, calls, last, loggedOut>>

\* a catch branch that returns before the flag is cleared
SubmitCatchKeepsFlag(r, op, flag) ==
    /\ page = "edit"
    /\ r \in inflight /\ r.op = op
    /\ inflight' = inflight \ {r}
    /\ UNCHANGED <<transactions, post, analytics, shown, server, selected, busy>>
    /\ UNCHANGED auth

\* The catch branch and the finally of a form handler
SubmitCatch(r, op, flag) ==
    /\ page = "edit"
    /\ r \in inflight /\ r.op = op
    /\ inflight' = inflight \ {r}
    /\ busy' = busy \ {flag}
    /\ UNCHANGED <<transactions, post, analytics, shown, server, selected>>
    /\ UNCHANGED auth

\* handleProfileSubmit, catch branch and finally
handleProfileSubmitCatch(r, hasData) ==
    /\ SubmitCatch(r, "saveProfile", "savingProfile")
    /\ note' = [NoNote EXCEPT !.op = "saveProfileCatch",
                   !.toast = IF hasData THEN "Please fix the errors below."
                             ELSE "Failed to update profile. Try again."]

\* handlePasswordSubmit up to api.post
handlePasswordSubmit(valid) ==
    /\ Submit("password", "savingPassword", valid)
    /\ note' = [NoNote EXCEPT !.op = "handlePasswordSubmit",
                              !.toast = IF valid THEN "" ELSE "Please fix the errors below."]

\* handlePasswordSubmit, try branch and finally
handlePasswordSubmitOk(r) ==
    /\ page = "edit"
    /\ r \in inflight /\ r.op = "password"
    /\ inflight' = inflight \ {r}
    /\ busy' = busy \ {"savingPassword"}
    /\ note' = [NoNote EXCEPT !.op = "passwordOk", !.toast = "Password changed successfully."]
    /\ UNCHANGED <<transactions, post, analytics, shown, server, selected>>
    /\ UNCHANGED auth

\* handlePasswordSubmit, catch branch and finally
handlePasswordSubmitCatch(r, hasData) ==
    /\ SubmitCatch(r, "password", "savingPassword")
    /\ note' = [NoNote EXCEPT !.op = "passwordCatch",
                   !.toast = IF hasData THEN "Please fix the errors below."
                             ELSE "Failed to change password. Try again."]

\* handleAvatarFileChange up to api.post: no file, a file too large or of
\* another type returns early
handleAvatarFileChange(valid) ==
    /\ Submit("avatar", "uploadingAvatar", valid)
    /\ note' = [NoNote EXCEPT !.op = "handleAvatarFileChange",
                              !.toast = IF valid THEN "" ELSE "Use JPEG, PNG, or WebP"]

\* handleAvatarFileChange, try branch and finally: updateUser({avatar})
handleAvatarFileChangeOk(r, avatar) ==
    /\ page = "edit"
    /\ r \in inflight /\ r.op = "avatar"
    /\ inflight' = inflight \ {r}
    /\ user' = MergeUser(user, avatar)
    /\ store' = [store EXCEPT !.user = JSONstringify(user')]
    /\ busy' = busy \ {"uploadingAvatar"}
    /\ note' = [NoNote EXCEPT !.op = "avatarOk", !.toast = "Profile picture updated"]
    /\ UNCHANGED <<transactions, post, analytics, shown, server, selected>>
    /\ UNCHANGED <<loading, page, reqs, nextTok, calls, last, loggedOut>>

\* handleAvatarFileChange, catch branch and finally
handleAvatarFileChangeCatch(r) ==
    /\ SubmitCatch(r, "avatar", "uploadingAvatar")
    /\ note' = [NoNote EXCEPT !.op = "avatarCatch", !.toast = "Failed to upload. Try again."]

\* ---------------------------------- LoginPage and RegisterPage: the flag
\* LoginPage.handleSubmit up to the await: setLoading(true), login(...)
LoginPageSubmit ==
    /\ page = "login"
    /\ "LoginPage.loading" \notin busy
    /\ calls < MaxCalls
    /\ inflight' = inflight \cup {Request("login", 0, <<>>)}
    /\ busy' = busy \cup {"LoginPage.loading"}
    /\ calls' = calls + 1
    /\ note' = [NoNote EXCEPT !.op = "LoginPage.handleSubmit"]
    /\ UNCHANGED <<transactions, post, analytics, shown, server, selected>>
    /\ UNCHANGED <<store, user, loading, page, reqs, nextTok, last, loggedOut>>

\* LoginPage.handleSubmit after the await: login() has stored the session
\* or shown its toast; push("/") on success; setLoading(false).  Home, when
\* it mounts, calls getTransactions.
LoginPageSettled(r, ok, payload) ==
    /\ page = "login"
    /\ r \in inflight /\ r.op = "login"
    /\ ok => nextTok <= MaxTok
    /\ LET out == IF ok THEN loginOk(store, user, nextTok, nextTok, 1, 0)
                  ELSE loginCatch(store, user, payload)
       IN /\ store' = out.store
          /\ user' = out.user
          /\ page' = RouteGuard(IF out.push # "none" THEN out.push ELSE page, user', loading)
          /\ note' = [NoNote EXCEPT !.op = IF ok THEN "loginOk" ELSE "loginCatch",
                                    !.toast = out.msg]
    /\ nextTok' = IF ok THEN nextTok + 1 ELSE nextTok
    /\ loggedOut' = (loggedOut /\ ~ok)
    /\ inflight' = IF ok THEN {Request("list", 0, <<>>)} ELSE inflight \ {r}
    /\ busy' = IF ok THEN {} ELSE busy \ {"LoginPage.loading"}
    /\ UNCHANGED <<transactions, post, analytics, shown, server, selected>>
    /\ UNCHANGED <<loading, reqs, calls, last>>

\* RegisterPage.handleSubmit up to the await, with the flag
RegisterPageSubmit(password, password2) ==
    /\ page = "register"
    /\ "RegisterPage.loading" \notin busy
    /\ password = password2 => calls < MaxCalls
    /\ inflight' = IF password = password2
                   THEN inflight \cup {Request("register", 0, <<>>)} ELSE inflight
    /\ busy' = IF password = password2 THEN busy \cup {"RegisterPage.loading"} ELSE busy
    /\ calls' = IF password = password2 THEN calls + 1 ELSE calls
    /\ note' = [NoNote EXCEPT !.op = "RegisterPage.handleSubmit",
                   !.toast = IF password = password2 THEN "" ELSE "Passwords do not match!"]
    /\ UNCHANGED <<transactions, post, analytics, shown, server, selected>>
    /\ UNCHANGED <<store, user, loading, page, reqs, nextTok, last, loggedOut>>

\* RegisterPage.handleSubmit after the await: push("/login") on success;
\* setLoading(false)
RegisterPageSettled(r, ok) ==
    /\ page = "register"
    /\ r \in inflight /\ r.op = "register"
    /\ LET out == IF ok THEN registerOk(store, user) ELSE registerCatch(store, user)
       IN /\ store' = out.store
          /\ user' = out.user
          /\ page' = RouteGuard(IF out.push # "none" THEN out.push ELSE page, user', loading)
          /\ note' = [NoNote EXCEPT !.op = IF ok THEN "registerOk" ELSE "registerCatch"]
    /\ inflight' = inflight \ {r}
    /\ busy' = IF ok THEN {} ELSE busy \ {"RegisterPage.loading"}
    /\ UNCHANGED <<transactions, post, analytics, shown, server, selected>>
    /\ UNCHANGED <<loading, reqs, nextTok, calls, last, loggedOut>>

\* ------------------------------------------- the pages and their requests
\* The lists Home can have fetched here: records of categories 1 and 2
\* with one amount, ids descending
Row(id, c) == [id |-> id, category |-> c, amount |-> [tag |-> "num", v |-> 50],
               type |-> "income"]
PageLists ==
    UNION {{[i \in 1..n |-> Row(n - i + 1, cs[i])] : cs \in [1..n -> {1, 2}]} : n \in 0..MaxLen}

SignedOutPages == {"login", "register"}

\* A page is mounted: Home with the list it fetched, ProfilePage with its
\* first fetchAnalytics in flight, EditProfilePage, or, signed out,
\* LoginPage or RegisterPage.
ViewsInit ==
    /\ page \in {"home", "profile", "edit", "login", "register"}
    /\ store = IF page \in SignedOutPages THEN EmptyStore
               ELSE LoginStore(EmptyStore, 1, 1, MkUser(1, 0))
    /\ user = IF page \in SignedOutPages THEN NoUser ELSE MkUser(1, 0)
    /\ loading = FALSE
    /\ reqs = EmptyBag
    /\ nextTok = IF page \in SignedOutPages THEN 1 ELSE 2
    /\ calls = 0
    /\ last = NoEvent
    /\ loggedOut = FALSE
    /\ transactions \in IF page = "home" THEN PageLists ELSE {<<>>}
    /\ post = NoPost
    /\ analytics = NoSummary
    /\ shown = Render(transactions, analytics)
    /\ note = NoNote
    /\ server = [rows |-> transactions, nextId |-> Len(transactions) + 1, expenses |-> <<>>]
    /\ inflight = IF page = "profile" THEN {Request("analytics", 0, <<>>)} ELSE {}
    /\ busy = IF page = "profile" THEN {"loadingAnalytics"} ELSE {}
    /\ selected = NoSelection

ViewSummaries == {[total_income |-> 200, total_expense |-> 50]}

ViewsNext ==
    \/ addTransaction("Salary", [tag |-> "num", v |-> 50], "income")
    \/ addTransactionOk
    \/ \E status \in {401, 500} : addTransactionCatch(status, FALSE)
    \/ \E id \in Ids : deleteTransaction(id)
    \/ \E r \in inflight : deleteTransactionOk(r)
    \/ \E r \in inflight, status \in {401, 404} : deleteTransactionCatch(r, status)
    \/ \E f \in 0..1 : setFilterCategoryId(f)
    \/ \E r \in inflight : getTransactionsOk(r)
    \/ \E r \in inflight, status \in {401, 500} : getTransactionsFail(r, status, FALSE)
    \/ \E p \in 0..1 : setPeriodIndex(p)
    \/ \E r \in inflight, s \in ViewSummaries : fetchAnalyticsOk(r, s)
    \/ \E r \in inflight : fetchAnalyticsFail(r)
    \/ \E valid \in BOOLEAN : handleProfileSubmit(valid)
    \/ \E r \in inflight : handleProfileSubmitOk(r)
    \/ \E r \in inflight, hasData \in BOOLEAN : handleProfileSubmitCatch(r, hasData)
    \/ \E valid \in BOOLEAN : handlePasswordSubmit(valid)
    \/ \E r \in inflight : handlePasswordSubmitOk(r)
    \/ \E r \in inflight, hasData \in BOOLEAN : handlePasswordSubmitCatch(r, hasData)
    \/ \E valid \in BOOLEAN : handleAvatarFileChange(valid)
    \/ \E r \in inflight, avatar \in Avatars : handleAvatarFileChangeOk(r, avatar)
    \/ \E r \in inflight : handleAvatarFileChangeCatch(r)
    \/ LoginPageSubmit
    \/ \E r \in inflight, ok \in BOOLEAN : LoginPageSettled(r, ok, NoPayload)
    \/ \E password, password2 \in Passwords : RegisterPageSubmit(password, password2)
    \/ \E r \in inflight, ok \in BOOLEAN : RegisterPageSettled(r, ok)

\* The handlers of the pages and the responses to their requests, in any
\* order: a response is delivered whenever its request is in flight.
Views == ViewsInit /\ [][ViewsNext]_vars

\* ================================================================ claims
Refreshing == {c \in InFlight : c.st = "refreshing"}
RefreshesInFlight == BagCardinality([c \in Refreshing |-> reqs[c]])
SessionEndedSignals(ev) ==
    (IF ev.hard THEN 1 ELSE 0) + (IF ev.push = "login" THEN 1 ELSE 0)

\* C1: one logical request causes at most one call to the refresh endpoint
\* and at most one resubmission, whatever the server answers: a resubmitted
\* request carries the retry marker, a 401 on the resubmission is rejected
\* to the caller without a second refresh, and a failed refresh call is
\* neither refreshed nor retried.
C1_RetryBounded ==
    /\ \A c \in InFlight :
          /\ c.refreshCalls <= 1
          /\ c.sends <= 2
          /\ (c.sends = 2 \/ c.st = "resent") => c.retry
    /\ last.cfg.refreshCalls <= 1
    /\ last.cfg.sends <= 2
    /\ (last.status = 401 /\ last.cfg.sends = 2) =>
          /\ last.op = "reject"
          /\ last.cfg.st = "done"
          /\ last.cfg.refreshCalls = 1
    /\ last.op = "refreshFail" =>
          /\ last.cfg.st = "done"
          /\ last.cfg.sends = 1
          /\ last.cfg.refreshCalls = 1

\* C1 witness: a resubmitted request got 401 and was rejected to its caller
\* after one refresh call and two sends.
C1_Witness ==
    /\ last.op = "reject"
    /\ last.status = 401
    /\ last.cfg.sends = 2
    /\ last.cfg.refreshCalls = 1
    /\ last.cfg.retry

\* C2: single-flight refresh: two requests that fail with 401 share one call
\* to the refresh endpoint, so at most one refresh call is pending at a time.
C2_SingleFlight == RefreshesInFlight <= 1

\* C3: a 401 on a request not yet retried, with a refresh token cached,
\* starts a refresh call and nothing else; a request is resubmitted only by
\* the step in which its refresh call succeeded, and it then carries the
\* access token the refresh returned, which is the stored one and not the
\* one that was rejected.
C3_RefreshThenRetry ==
    [][ /\ ( /\ last'.op \in {"reject", "noRefreshToken", "refreshCall"}
             /\ last'.status = 401
             /\ last'.cfg.sends = 1
             /\ store.refresh_token # NoToken )
           => ( /\ last'.op = "refreshCall"
                /\ last'.cfg.st = "refreshing"
                /\ last'.cfg \in InFlight'
                /\ store' = store )
        /\ (\E c \in InFlight' : c.st = "resent" /\ CopiesIn(c, reqs') > CopiesIn(c, reqs))
           => last'.op = "refreshOk"
        /\ last'.op = "refreshOk"
           => ( /\ [last'.cfg EXCEPT !.st = "refreshing", !.hdr = last'.old, !.sends = 1]
                       \in InFlight
                /\ last'.cfg.st = "resent"
                /\ last'.cfg \in InFlight'
                /\ store'.access_token = nextTok
                /\ last'.cfg.hdr = nextTok
                /\ last'.cfg.hdr # last'.old )
      ]_vars

\* C3 witness: a request rejected with a token has been resubmitted with the
\* new stored token after its refresh call succeeded.
C3_Witness ==
    /\ last.op = "refreshOk"
    /\ last.cfg.st = "resent"
    /\ last.old # NoToken
    /\ last.cfg.hdr = store.access_token
    /\ last.cfg.hdr # last.old

\* C4: when the refresh call fails with any error, the three store entries
\* are removed, window.location.href is set to /login, the caller is
\* rejected and the original request is not resubmitted.
C4_RefreshFailureEndsSession ==
    last.op = "refreshFail" =>
        /\ store = EmptyStore
        /\ last.hard
        /\ last.cfg.st = "done"
        /\ last.cfg.sends = 1
        /\ \A c \in InFlight : c.st = "resent" => c.hdr # NoToken
        /\ last.cfg.kind = "login" => last.ret = "false"
        /\ last.status # 200

\* C4 witness: a refresh call failed with an error other than 401 for a
\* request whose call site does not log out.
C4_Witness ==
    /\ last.op = "refreshFail"
    /\ last.status = 500
    /\ last.cfg.kind = "analytics"
    /\ store = EmptyStore

\* C5: a 401 with no refresh token cached ends the session for every
\* protected request: afterwards the store is cleared, nobody is
\* authenticated and the user is off the protected pages or is being sent
\* to /login.
C5_NoRefreshTokenEndsSession ==
    (last.op = "noRefreshToken" /\ last.cfg.kind \in ProtectedKinds) =>
        /\ store = EmptyStore
        /\ ~isAuthenticated
        /\ page \notin ProtectedPages \/ SessionEndedSignals(last) >= 1

\* C6: a 401 on the resubmitted request clears the session and signals
\* session ended exactly once, for every protected request.
C6_RetriedUnauthorizedEndsSession ==
    ( /\ last.op = "reject"
      /\ last.status = 401
      /\ last.cfg.sends = 2
      /\ last.cfg.kind \in ProtectedKinds ) =>
        /\ store = EmptyStore
        /\ ~isAuthenticated
        /\ SessionEndedSignals(last) = 1

\* C7: a request put on the wire by the api client carries the access token
\* that is in the store at that moment, and no Authorization header when
\* none is cached; nothing else of the request changes.
C7_BearerAttached ==
    last.op \in {"call", "refreshOk"} =>
        /\ last.cfg.hdr = store.access_token
        /\ last.cfg \in InFlight
        /\ last.cfg.st \in {"sent", "resent"}
        /\ last.op = "call" =>
              last.cfg = [NewReq EXCEPT !.kind = last.cfg.kind, !.st = "sent",
                                        !.sends = 1, !.hdr = store.access_token]

\* C7 witness: a protected request was sent with the cached access token.
C7_Witness ==
    /\ last.op = "call"
    /\ last.cfg.kind \in ProtectedKinds
    /\ last.cfg.hdr # NoToken
    /\ last.cfg.hdr = store.access_token

\* C8: after a successful login the store holds the access token, the
\* refresh token and the user the server returned, the in-memory user is
\* that user, and login returned true.
C8_LoginCreatesSession ==
    [][ (last'.op = "ok" /\ last'.cfg.kind = "login") =>
            /\ store'.access_token = nextTok
            /\ store'.refresh_token = nextTok
            /\ store'.user.has
            /\ JSONparse(store'.user) = last'.data
            /\ user' = last'.data
            /\ last'.data.present
            /\ isAuthenticated'
            /\ last'.ret = "true"
      ]_vars

\* C8 witness: a login succeeded over an older session and left the new
\* tokens and user in the store.
C8_Witness ==
    /\ last.op = "ok"
    /\ last.cfg.kind = "login"
    /\ last.ret = "true"
    /\ store.refresh_token > 1
    /\ store.refresh_token = store.access_token
    /\ user = last.data

\* C9: when the login request gets an error status or no response while
\* nobody is authenticated, no refresh cycle runs for it: login returns
\* false, shows one message (detail, else message, else 'Login failed') and
\* leaves the store and the in-memory user as they were.
C9_LoginFailureKeepsState ==
    [][ (last'.cfg.kind = "login" /\ last'.status # 200 /\ ~isAuthenticated
           /\ last'.op \in {"reject", "noRefreshToken", "refreshCall"}) =>
            /\ last'.op \in {"reject", "noRefreshToken"}
            /\ last'.ret = "false"
            /\ last'.toasts = 1
            /\ last'.msg = ( IF last'.payload.detail # "" THEN last'.payload.detail
                             ELSE IF last'.payload.message # "" THEN last'.payload.message
                             ELSE "Login failed" )
            /\ store' = store
            /\ user' = user
            /\ ~isAuthenticated'
            /\ ~last'.hard /\ last'.push = "none"
      ]_vars

\* C9 witness: a login was refused with a payload that has a message and no
\* detail, and no session exists.
C9_Witness ==
    /\ last.op = "noRefreshToken"
    /\ last.cfg.kind = "login"
    /\ last.ret = "false"
    /\ last.msg = "Bad request"
    /\ store = EmptyStore
    /\ ~isAuthenticated

\* C10: logout, in whatever state it is called, empties the store and sets
\* the user to null without putting any request on the wire; called when
\* the session is already gone it changes neither store nor user.
C10_LogoutLocal ==
    [][ last'.logout =>
            /\ store' = EmptyStore
            /\ ~isAuthenticated'
            /\ calls' = calls
            /\ \A c \in InFlight' : CopiesIn(c, reqs') <= CopiesIn(c, reqs)
            /\ (store = EmptyStore /\ ~isAuthenticated) => (store' = store /\ user' = user)
      ]_vars

\* C10 witness: logout ran from a state in which a refresh token was cached.
C10_Witness ==
    /\ last.op = "logout"
    /\ last.logout
    /\ store = EmptyStore
    /\ ~isAuthenticated
    /\ nextTok > 1

\* C11: after logout and until the next successful login no protected
\* request (transactions, categories, analytics, profile) is put on the
\* wire: neither a call from a page nor the resubmission of a request after
\* a token refresh.
C11_NoProtectedRequestAfterLogout ==
    (loggedOut /\ last.op \in {"call", "refreshOk"}) =>
        last.cfg.kind \notin ProtectedKinds

\* C12: a response that arrives after logout mutates nothing: when the
\* interceptor or the call site of a protected request has run and no login
\* has succeeded since the logout, the store holds no access_token, no
\* refresh_token and no user, and the user in memory is null.
C12_LoggedOutStaysEmpty ==
    (loggedOut /\ last.cfg.kind \in ProtectedKinds) =>
        (store = EmptyStore /\ ~isAuthenticated)

\* C13: the session survives a reload.  The startup check restores a user
\* exactly when the store holds both a user and an access token, and is
\* unauthenticated otherwise; when the reload happened with a user in memory
\* and the store still holds the session, the restored user is the same user.
C13_SessionRoundTrip ==
    [][last'.op = "loadUser" =>
          /\ ~loading'
          /\ isAuthenticated' <=> (store.user.has /\ store.access_token # NoToken)
          /\ (last.op = "reload" /\ last.data.present /\ isAuthenticated') =>
                user' = last.data]_vars

C13_Witness ==
    /\ last.op = "loadUser"
    /\ isAuthenticated
    /\ user.avatar = 1
    /\ store.refresh_token # NoToken

\* The sum of the amounts of the records of `list` whose type field is ty.
RECURSIVE SumWhere(_, _)
SumWhere(list, ty) ==
    IF list = <<>> THEN 0
    ELSE (IF Head(list).type = ty THEN Head(list).amount.v ELSE 0)
         + SumWhere(Tail(list), ty)

Numeric(list) == \A i \in 1..Len(list) : list[i].amount.tag = "num"
Typed(list) == \A i \in 1..Len(list) : list[i].type \in Types

\* C14: for every list of records with a numeric amount and a type, the
\* empty list included, the income shown is the sum of the amounts of the
\* income records, the expense shown the sum of the amounts of the expense
\* records, and the balance shown is income minus expense.
C14_Totals ==
    (Numeric(transactions) /\ Typed(transactions)) =>
        /\ shown.income = Num(SumWhere(transactions, "income"))
        /\ shown.expense = Num(SumWhere(transactions, "expense"))
        /\ shown.balance = Num(SumWhere(transactions, "income")
                               - SumWhere(transactions, "expense"))

C14_Witness ==
    /\ note.op = "addOk"
    /\ Len(transactions) = 2
    /\ Numeric(transactions) /\ Typed(transactions)
    /\ transactions[1].type = "income" /\ transactions[2].type = "income"
    /\ shown.income.v = 1400
    /\ shown.expense.v = 0

Legacy(t, n) == t.amount = [tag |-> "num", v |-> n] /\ t.type = "none"

\* C15: a record without a type counts by the sign and the magnitude of its
\* amount: with amount -50 it adds 50 to the expense shown and takes 50 from
\* the balance shown; with amount +50 it adds 50 to the income shown (and to
\* the balance).  Stated for such a record at the head of a list of records
\* with numeric amounts, against the totals of the rest of the list.
C15_LegacyInference ==
    (transactions # <<>> /\ Numeric(transactions)) =>
        LET rest == Tail(transactions)
        IN /\ Legacy(Head(transactions), -50) =>
                /\ shown.expense.v = expense(rest).v + 50
                /\ shown.income.v = income(rest).v
                /\ shown.balance.v = balance(rest).v - 50
           /\ Legacy(Head(transactions), 50) =>
                /\ shown.income.v = income(rest).v + 50
                /\ shown.expense.v = expense(rest).v
                /\ shown.balance.v = balance(rest).v + 50

InRange(f) == f.den > 0 /\ 0 <= f.num /\ f.num <= 100 * f.den
Is(f, n) == f.den > 0 /\ f.num = n * f.den

\* C16: the ratio shown lies in [0, 100] and is 0 when the income is 0, on
\* Home (ratio) and on ProfilePage (expenseRatio); for income 100 and expense
\* 150 it is 100, for income 200 and expense 50 it is 25.
C16_RatioInRange ==
    /\ InRange(shown.ratio)
    /\ InRange(shown.expenseRatio)
    /\ shown.income.v = 0 => Is(shown.ratio, 0)
    /\ (analytics.has /\ analytics.total_income = 0) => Is(shown.expenseRatio, 0)
    /\ (shown.income.v = 100 /\ shown.expense.v = 150) => Is(shown.ratio, 100)
    /\ (shown.income.v = 200 /\ shown.expense.v = 50) => Is(shown.ratio, 25)
    /\ (analytics.has /\ analytics.total_income = 100 /\ analytics.total_expense = 150) =>
          Is(shown.expenseRatio, 100)
    /\ (analytics.has /\ analytics.total_income = 200 /\ analytics.total_expense = 50) =>
          Is(shown.expenseRatio, 25)

Salary == [id |-> 1, category |-> 0, amount |-> [tag |-> "num", v |-> 1000], type |-> "income"]
Rent == [id |-> 2, category |-> 0, amount |-> [tag |-> "num", v |-> 400], type |-> "expense"]
Posting(text, n, type) ==
    post.sent /\ post.text = text /\ post.amount = n /\ post.type = type

\* C17: a signed-in user with an empty list creates {Salary, 1000, income}
\* and then {Rent, 400, expense}, both posts succeeding: the list holds both
\* records and the totals shown are income 1000, expense 400, balance 600
\* and ratio 40.
C17_EndToEnd ==
    [][(note'.op = "addOk") =>
          /\ (transactions = <<>> /\ Posting("Salary", 1000, "income")) =>
                transactions' = <<Salary>>
          /\ (transactions = <<Salary>> /\ Posting("Rent", 400, "expense")) =>
                /\ transactions' = <<Rent, Salary>>
                /\ shown'.income = Num(1000)
                /\ shown'.expense = Num(400)
                /\ shown'.balance = Num(600)
                /\ Is(shown'.ratio, 40)]_vars

C17_Witness ==
    /\ note.op = "addOk"
    /\ transactions = <<Rent, Salary>>
    /\ shown.balance = Num(600)
    /\ ~post.sent

\* C18: addTransaction posts only when the description is not empty and the
\* amount is a number greater than zero; otherwise nothing is sent, an error
\* toast is shown and the list is unchanged.  Hence the payload of every post
\* and every record created from it has a positive amount and a type.
C18_AddValidated ==
    [][/\ (note'.op = "addTransaction") =>
             LET valid == /\ note'.text # ""
                          /\ note'.amount.tag = "num"
                          /\ note'.amount.v > 0
             IN /\ post'.sent <=> valid
                /\ ~valid => (note'.toast # "" /\ transactions' = transactions
                              /\ post' = post /\ shown' = shown)
                /\ valid => (post'.amount = note'.amount.v /\ post'.amount > 0
                             /\ post'.type \in Types /\ note'.toast = "")
       /\ (note'.op = "addOk") =>
             /\ Head(transactions').amount.tag = "num"
             /\ Head(transactions').amount.v > 0
             /\ Head(transactions').type \in Types]_vars

C18_Witness ==
    /\ note.op = "addTransaction"
    /\ note.text = "Rent"
    /\ note.amount = [tag |-> "num", v |-> -50]
    /\ note.toast = "Amount must be greater than zero"
    /\ ~post.sent

Failed == {"reject", "noRefreshToken", "refreshFail"}

\* C19: every failed api call is turned into a notification the user sees
\* at its call site: when a call site has caught the rejection of its
\* request, it has shown a toast or set the error alert of its page.
C19_FailureNotified ==
    last.op \in Failed => (last.toasts >= 1 \/ last.error # "")

\* C20: once the startup check has finished, a user who is not authenticated
\* is on no protected page (home, profile, edit): the page has redirected to
\* /login and its render gate shows no content; a user who is authenticated
\* is not on the login or register page: it has redirected to /.
C20_ProtectedRoutes ==
    [][/\ (~loading' /\ ~isAuthenticated') =>
             /\ page' \notin ProtectedPages
             /\ ~RendersProtected(page', user', loading')
             /\ page \in ProtectedPages => page' = "login"
       /\ isAuthenticated' =>
             /\ page' \notin {"login", "register"}
             /\ page \in {"login", "register"} => page' = "home"]_vars

C20_Witness ==
    /\ last.op = "noRefreshToken"
    /\ last.cfg.kind = "transactions"
    /\ last.logout
    /\ ~loading
    /\ ~isAuthenticated
    /\ page = "login"

Settles == {"ok", "reject", "noRefreshToken"}

\* C21: registration never creates a session.  When the register request
\* has settled, with success or with a failure, the store and the user in
\* memory are what they were (after a failed refresh on its behalf the store
\* is empty: nothing new either); and when the two passwords differ no
\* request is made.
C21_RegisterNoSession ==
    [][/\ (last'.cfg.kind = "register" /\ last'.op \in Settles) =>
             (store' = store /\ user' = user)
       /\ (last'.cfg.kind = "register" /\ last'.op = "refreshFail") =>
             (store' = EmptyStore /\ user' = user)
       /\ (last'.op = "mismatch") =>
             (reqs' = reqs /\ calls' = calls /\ store' = store /\ user' = user)]_vars

C21_Witness ==
    /\ last.op = "ok"
    /\ last.cfg.kind = "register"
    /\ page = "login"
    /\ store = EmptyStore
    /\ ~isAuthenticated

C23_AuthenticatedHasSession ==
    (isAuthenticated /\ loggedOut) =>
        (store.access_token # NoToken /\ store.user # NoItem)

\* C26: a successful token refresh changes only the stored access token: the
\* stored refresh token, the stored user and the user in memory stay as they
\* were.  The refresh call sends the stored refresh token, and only a login
\* that succeeds stores a refresh token, so every later refresh sends the one
\* obtained at login.
C26_RefreshKeepsRefreshToken ==
    [][/\ (last'.op = "refreshOk") =>
             /\ store' = [store EXCEPT !.access_token = last'.cfg.hdr]
             /\ user' = user
       /\ (last'.op = "refreshCall") =>
             (last'.refresh = store.refresh_token /\ store' = store /\ user' = user)
       /\ (store'.refresh_token # store.refresh_token /\ store'.refresh_token # NoToken) =>
             (last'.op = "ok" /\ last'.cfg.kind = "login")]_vars

\* a second refresh of a session: the access token is the one of the first
\* refresh, the refresh token sent is still the one of the stored session
C26_Witness ==
    /\ last.op = "refreshCall"
    /\ store.access_token = 2
    /\ last.refresh = 1 /\ store.refresh_token = 1

StoredSession(st) == st.user.has /\ st.access_token # NoToken

\* C29: on a page load with a stored user and access token, the startup check
\* sets the user and clears `loading` in one step, a protected page stays
\* where it is, and no protected request is sent while `loading` holds; no
\* state has loading false and user null although a stored session exists.
C29_StartupCheckFirst ==
    [][/\ (loading /\ last'.op = "call") => last'.cfg.kind \notin ProtectedKinds
       /\ (last'.op = "loadUser" /\ StoredSession(store)) =>
             /\ isAuthenticated' /\ ~loading'
             /\ page \in ProtectedPages => page' = page
       /\ ~(~loading' /\ ~isAuthenticated' /\ StoredSession(store'))]_vars

C29_Witness ==
    /\ last.op = "loadUser" /\ StoredSession(store)
    /\ page \in ProtectedPages /\ isAuthenticated /\ ~loading

NumericPart(list) == SelectSeq(list, LAMBDA t : t.amount.tag = "num")

\* C27: a record whose amount is not a number contributes 0 to the totals
\* shown and leaves the contributions of the other records as they are,
\* wherever it stands in the list: the totals are those of the records with a
\* numeric amount.  Stated for lists whose numeric amounts are positive.
C27_NonNumericCountsZero ==
    (Typed(transactions) /\ \A i \in 1..Len(transactions) :
        transactions[i].amount.tag = "num" => transactions[i].amount.v > 0) =>
        /\ shown.income = Num(SumWhere(NumericPart(transactions), "income"))
        /\ shown.expense = Num(SumWhere(NumericPart(transactions), "expense"))

OnServer(id) == HasId(server.rows, id)
AllSettled == inflight = {} /\ ~post.sent

\* C24: no update to the transaction list is lost: a record the server has
\* deleted is never displayed again, and once the add and delete requests in
\* flight have settled (all records shown, no filter) the list displayed is
\* the list of the server: the records fetched, plus those added, minus
\* those deleted.
C24_NoLostUpdate ==
    /\ \A i \in 1..Len(transactions) : OnServer(transactions[i].id)
    /\ (page = "home" /\ AllSettled /\ selected.filter = 0
        /\ note.op \in {"addOk", "deleteOk"}) =>
          transactions = server.rows

\* C25: the latest selection wins: once every fetch of the list has settled,
\* the list displayed is the response for the category filter now selected;
\* once every fetch of the analytics has settled, the analytics displayed are
\* those of the period now selected.
C25_LatestSelectionWins ==
    /\ (page = "home" /\ AllSettled /\ note.op = "listOk") =>
          transactions = Matching(server.rows, selected.filter)
    /\ (page = "profile" /\ inflight = {} /\ note.op = "analyticsOk") =>
          analytics.period = selected.period

\* The handler that settled last, by flag
SettledOps(flag) ==
    CASE flag = "loading" -> {"addOk", "addCatch"}
      [] flag = "LoginPage.loading" -> {"loginOk", "loginCatch"}
      [] flag = "RegisterPage.loading" -> {"registerOk", "registerCatch"}
      [] flag = "savingProfile" -> {"saveProfileOk", "saveProfileCatch"}
      [] flag = "savingPassword" -> {"passwordOk", "passwordCatch"}
      [] flag = "uploadingAvatar" -> {"avatarOk", "avatarCatch"}
      [] OTHER -> {"analyticsOk", "analyticsCatch"}

RequestOf(flag) ==
    CASE flag = "LoginPage.loading" -> "login"
      [] flag = "RegisterPage.loading" -> "register"
      [] flag = "savingProfile" -> "saveProfile"
      [] flag = "savingPassword" -> "password"
      [] flag = "uploadingAvatar" -> "avatar"
      [] OTHER -> "analytics"

BusyFlags == {"loading", "LoginPage.loading", "RegisterPage.loading", "savingProfile",
              "savingPassword", "uploadingAvatar", "loadingAnalytics"}

\* C28: every submission that raises a busy flag (add transaction, login,
\* register, save profile, change password, upload avatar, load analytics)
\* has cleared it when its request has settled, by success or by failure: the
\* flag is down after the handler's last step, and a flag that is up has its
\* request in flight.
C28_BusyFlagCleared ==
    /\ \A flag \in BusyFlags : note.op \in SettledOps(flag) => flag \notin busy
    /\ "loading" \in busy => post.sent
    /\ \A flag \in busy \ {"loading"} : \E r \in inflight : r.op = RequestOf(flag)

C28_Witness ==
    /\ note.op = "avatarCatch"
    /\ busy = {}
    /\ inflight = {}

\* C30: an add or a delete that fails leaves the list displayed as it was
\* (while Home stays mounted: a 401 signs the user out and leaves the page),
\* and an add that succeeds puts the record the server created at the head of
\* the list.
C30_FailureKeepsList ==
    [][/\ (note'.op \in {"addCatch", "deleteCatch"} /\ page' = "home") =>
             transactions' = transactions
       /\ (note'.op = "addOk") =>
             /\ transactions' # <<>>
             /\ Head(transactions') = Head(server'.rows)
             /\ Head(transactions').id = server.nextId]_vars

C30_Witness ==
    /\ note.op = "deleteCatch" /\ page = "home"
    /\ Len(transactions) = 2 /\ transactions = server.rows

====
